---------------------------- MODULE Spec2Model ----------------------------
(***************************************************************************)
(* Model of app.py: the session state of the map application (the layer    *)
(* store, the click/move registers, the auto-sync flag), the Google Sheets *)
(* worksheet it synchronises with, and one action per user interaction,    *)
(* each action being one pass of the script from top to bottom.            *)
(*                                                                         *)
(* Text is modelled as a tuple of one-character strings, so that strip(),  *)
(* the hex pattern and float() are computed character by character.        *)
(* Python's None is the empty tuple.  Coordinates are integers.            *)
(***************************************************************************)
EXTENDS Integers, Sequences, FiniteSets, TLC

VARIABLES
    layers,                 \* st.session_state.layers, in insertion order
    move_target,            \* st.session_state.move_target: None or <<layer, index>>
    last_click,             \* st.session_state.last_click: None or <<lat, lon>>
    last_added_from_click,  \* st.session_state.last_added_from_click
    auto_sync,              \* st.session_state.auto_sync
    last_clicked,           \* map_state["last_clicked"] kept by the map component
    rerun,                  \* a st.rerun() is pending
    sheet,                  \* the worksheet's values, as get_all_values() reads them
    uuid_count,             \* number of identifiers _new_id() has handed out
    exc,                    \* exception that ended the last pass unhandled, or "none"
    sync,                   \* what the tab_sheets block of the last pass reported
    append,                 \* what the auto-sync block of the last pass reported
    store_before_sync,      \* the layer store when the last sync block was entered
    sheet_after_sync,       \* the worksheet as the load or save handler of the last
                            \* pass read or left it; None when neither ran
    last_op,                \* what the last pass did to a Feature: the move it
                            \* applied, the delete or the confirm-add pressed
    cand,                   \* a candidate colour text being typed
    cleaned                 \* _clean_hex of that candidate

vars == <<layers, move_target, last_click, last_added_from_click, auto_sync,
          last_clicked, rerun, sheet, uuid_count, exc, sync, append,
          store_before_sync, sheet_after_sync, last_op, cand, cleaned>>

None == <<>>

(***************************************************************************)
(* Text helpers: str.strip(), str.startswith("#"), the pattern of _hex_ok  *)
(***************************************************************************)
Whitespace == {" ", "\t"}

HexDigits == {"0", "1", "2", "3", "4", "5", "6", "7", "8", "9",
              "a", "b", "c", "d", "e", "f", "A", "B", "C", "D", "E", "F"}

RECURSIVE LStrip(_)
LStrip(s) == IF s # <<>> /\ Head(s) \in Whitespace THEN LStrip(Tail(s)) ELSE s

RECURSIVE RStrip(_)
RStrip(s) ==
    IF s # <<>> /\ s[Len(s)] \in Whitespace
    THEN RStrip(SubSeq(s, 1, Len(s) - 1))
    ELSE s

Strip(s) == RStrip(LStrip(s))

StartsWithHash(s) == s # <<>> /\ s[1] = "#"

AllHex(s) == \A i \in 1..Len(s) : s[i] \in HexDigits

\* re.fullmatch(r"#?[0-9a-fA-F]{6}", s)
MatchHex6(s) ==
    \/ Len(s) = 6 /\ AllHex(s)
    \/ Len(s) = 7 /\ s[1] = "#" /\ AllHex(Tail(s))

DefaultColor == <<"#", "1", "f", "7", "7", "b", "4">>

_hex_ok(h) == MatchHex6(Strip(h))

\* _clean_hex folding the digits to lower case
CleanHexLower(h) ==
    LET h1 == Strip(IF h = <<>> THEN DefaultColor ELSE h)
        h2 == IF StartsWithHash(h1) THEN h1 ELSE <<"#">> \o h1
        low(c) == CASE c = "A" -> "a" [] c = "B" -> "b" [] c = "C" -> "c"
                    [] c = "D" -> "d" [] c = "E" -> "e" [] c = "F" -> "f"
                    [] OTHER -> c
    IN  IF _hex_ok(h2) THEN [i \in 1..Len(h2) |-> low(h2[i])] ELSE DefaultColor

_clean_hex(h) ==
    LET h1 == Strip(IF h = <<>> THEN DefaultColor ELSE h)
        h2 == IF StartsWithHash(h1) THEN h1 ELSE <<"#">> \o h1
    IN  IF _hex_ok(h2) THEN h2 ELSE DefaultColor


(***************************************************************************)
(* Numbers in cells: float() on a cell read from the worksheet, and the    *)
(* text the worksheet shows for a number written to it.  Only integer      *)
(* values occur in this model.                                             *)
(***************************************************************************)
Digits == <<"0", "1", "2", "3", "4", "5", "6", "7", "8", "9">>

IsDigit(c) == \E d \in 1..10 : Digits[d] = c

DigitVal(c) == (CHOOSE d \in 1..10 : Digits[d] = c) - 1

RECURSIVE NatVal(_)
NatVal(s) == IF s = <<>> THEN 0
             ELSE 10 * NatVal(SubSeq(s, 1, Len(s) - 1)) + DigitVal(s[Len(s)])

AllDigits(s) == s # <<>> /\ \A i \in 1..Len(s) : IsDigit(s[i])

\* float(text): surrounding whitespace is ignored, one sign is allowed
ParseFloat(text) ==
    LET t == Strip(text)
        signed == t # <<>> /\ t[1] \in {"-", "+"}
        body == IF signed THEN Tail(t) ELSE t
    IN  IF AllDigits(body)
        THEN [ok |-> TRUE,
              val |-> IF signed /\ t[1] = "-" THEN 0 - NatVal(body) ELSE NatVal(body)]
        ELSE [ok |-> FALSE, val |-> 0]

RECURSIVE FormatNat(_)
FormatNat(n) == IF n < 10 THEN <<Digits[n + 1]>>
                ELSE FormatNat(n \div 10) \o <<Digits[(n % 10) + 1]>>

FormatNum(n) == IF n < 0 THEN <<"-">> \o FormatNat(0 - n) ELSE FormatNat(n)

(***************************************************************************)
(* Text constants of the source                                            *)
(***************************************************************************)
HEADER == << <<"i", "d">>, <<"l", "a", "y", "e", "r">>, <<"c", "o", "l", "o", "r">>,
             <<"t", "i", "t", "u", "l", "o">>, <<"d", "e", "s", "c">>,
             <<"f", "e", "c", "h", "a">>,
             <<"p", "r", "o", "v", "i", "n", "c", "i", "a">>,
             <<"c", "a", "n", "t", "o", "n">>,
             <<"r", "e", "s", "p", "o", "n", "s", "a", "b", "l", "e">>,
             <<"i", "m", "p", "a", "c", "t", "o">>, <<"e", "n", "l", "a", "c", "e">>,
             <<"l", "a", "t">>, <<"l", "o", "n">> >>

NCols == 13

\* the four layers of a new session (accents written without the accent)
DefaultLayers == <<
    [name |-> <<"I", "n", "f", "r", "a", "e", "s", "t", "r", "u", "c", "t", "u", "r", "a",
                " ", "r", "e", "c", "u", "p", "e", "r", "a", "d", "a">>,
     color |-> <<"#", "2", "c", "a", "0", "2", "c">>, visible |-> TRUE, features |-> <<>>],
    [name |-> <<"P", "r", "e", "v", "e", "n", "c", "i", "o", "n", " ", "c", "o", "m", "u",
                "n", "i", "t", "a", "r", "i", "a">>,
     color |-> <<"#", "1", "f", "7", "7", "b", "4">>, visible |-> TRUE, features |-> <<>>],
    [name |-> <<"O", "p", "e", "r", "a", "t", "i", "v", "o", "s", " ", "y", " ", "c", "o",
                "n", "t", "r", "o", "l">>,
     color |-> <<"#", "f", "f", "7", "f", "0", "e">>, visible |-> TRUE, features |-> <<>>],
    [name |-> <<"G", "e", "s", "t", "i", "o", "n", " ", "i", "n", "t", "e", "r", "i", "n",
                "s", "t", "i", "t", "u", "c", "i", "o", "n", "a", "l">>,
     color |-> <<"#", "9", "4", "6", "7", "b", "d">>, visible |-> TRUE, features |-> <<>>] >>

(***************************************************************************)
(* The layer store                                                         *)
(***************************************************************************)
LayerNames(ls) == {ls[i].name : i \in 1..Len(ls)}

\* position of the layer called name (the store is a dict: names are unique)
LayerIndex(ls, name) == CHOOSE i \in 1..Len(ls) : ls[i].name = name

\* RemoveAt taking the last element whatever the index
RemoveLast(s, i) == SubSeq(s, 1, Len(s) - 1)

\* list.pop(i - 1) and del of the i-th key
RemoveAt(s, i) == SubSeq(s, 1, i - 1) \o SubSeq(s, i + 1, Len(s))

RECURSIVE FlattenUpTo(_, _)
FlattenUpTo(ls, k) == IF k = 0 THEN <<>> ELSE FlattenUpTo(ls, k - 1) \o ls[k].features

\* all_features_fc leaving out the layers that are not visible
FlattenVisible(ls) ==
    FlattenUpTo(SelectSeq(ls, LAMBDA l : l.visible), Len(SelectSeq(ls, LAMBDA l : l.visible)))

\* all_features_fc()["features"]
all_features_fc(ls) == FlattenUpTo(ls, Len(ls))

\* _new_id(): the model hands out u1, u2, ... and never the same one twice
_new_id(n) == <<"u">> \o FormatNat(n + 1)

\* _build_feature: the coordinates are stored longitude first; n identifiers
\* have been handed out so far
_build_feature(lon, lat, props, n) ==
    [properties |-> IF props.id = <<>> THEN [props EXCEPT !.id = _new_id(n)] ELSE props,
     coordinates |-> <<lon, lat>>]

(***************************************************************************)
(* The worksheet.  A number written to a cell is read back as its text.    *)
(***************************************************************************)
\* the cells a written row leaves in the worksheet: columns lat and lon of a
\* data row hold numbers
RowCells(row) ==
    [j \in 1..Len(row) |-> IF j >= NCols - 1 THEN FormatNum(row[j]) ELSE row[j]]

\* ws.update("A1", rows): rows[1] is the header; what lies below the written
\* range stays
ws_update(sh, rows) ==
    [i \in 1..Len(rows) |-> IF i = 1 THEN rows[1] ELSE RowCells(rows[i])]
        \o SubSeq(sh, Len(rows) + 1, Len(sh))

\* ws.append_row(row)
ws_append_row(sh, row) == Append(sh, RowCells(row))

\* ws.clear()
ws_clear(sh) == <<>>

\* get_ws(): connects, reads the values and writes the header into an empty
\* worksheet; any of the three calls may raise
get_ws(sh, fail) ==
    IF fail \in {"connect", "read"} THEN [ok |-> FALSE, sheet |-> sh]
    ELSE IF Len(sh) = 0
         THEN IF fail = "update" THEN [ok |-> FALSE, sheet |-> sh]
              ELSE [ok |-> TRUE, sheet |-> ws_update(sh, <<HEADER>>)]
         ELSE [ok |-> TRUE, sheet |-> sh]

(***************************************************************************)
(* rows_from_app and app_from_rows                                         *)
(***************************************************************************)
\* FeatureRow with latitude and longitude taken from the wrong places
FeatureRowSwapped(f) ==
    LET p == f.properties
        lon == f.coordinates[2]
        lat == f.coordinates[1]
    IN  <<p.id, p.layer, p.color, p.titulo, p.desc, p.fecha, p.provincia, p.canton,
          p.responsable, p.impacto, p.enlace, lat, lon>>

\* the row rows_from_app makes of Feature f: lat and lon are numbers
FeatureRow(f) ==
    LET p == f.properties
        lon == f.coordinates[1]
        lat == f.coordinates[2]
    IN  <<p.id, p.layer, p.color, p.titulo, p.desc, p.fecha, p.provincia, p.canton,
          p.responsable, p.impacto, p.enlace, lat, lon>>

\* rows_from_app(): the header, then the flattened Features
rows_from_app(ls) ==
    LET feats == all_features_fc(ls)
    IN  <<HEADER>> \o [i \in 1..Len(feats) |-> FeatureRow(feats[i])]

\* the Feature app_from_rows builds from a 13-column row r, with n identifiers
\* handed out so far
RowFeature(r, n) ==
    [properties |->
        [id |-> IF r[1] = <<>> THEN _new_id(n) ELSE r[1],
         layer |-> r[2], color |-> _clean_hex(r[3]), titulo |-> r[4], desc |-> r[5],
         fecha |-> r[6], provincia |-> r[7], canton |-> r[8], responsable |-> r[9],
         impacto |-> r[10], enlace |-> r[11]],
     coordinates |-> <<ParseFloat(r[13]).val, ParseFloat(r[12]).val>>]

\* AddRow giving the layer the colour of its latest row
AddRowLastColor(acc, r, n) ==
    LET feat == RowFeature(r, n)
    IN  IF r[2] \in LayerNames(acc)
        THEN [acc EXCEPT ![LayerIndex(acc, r[2])].features = Append(@, feat),
                         ![LayerIndex(acc, r[2])].color = _clean_hex(r[3])]
        ELSE Append(acc, [name |-> r[2], color |-> _clean_hex(r[3]),
                          visible |-> TRUE, features |-> <<feat>>])

\* one valid row added to the dict being built
AddRow(acc, r, n) ==
    LET feat == RowFeature(r, n)
    IN  IF r[2] \in LayerNames(acc)
        THEN [acc EXCEPT ![LayerIndex(acc, r[2])].features = Append(@, feat)]
        ELSE Append(acc, [name |-> r[2], color |-> _clean_hex(r[3]),
                          visible |-> TRUE, features |-> <<feat>>])

\* the loop of app_from_rows from row k on, with the dict acc built so far:
\* ok is FALSE when a row raises (unpacking more than 13 columns, float() of
\* a cell that is no number)
RECURSIVE RowsLoop(_, _, _, _)
RowsLoop(values, k, acc, n) ==
    IF k > Len(values) THEN [ok |-> TRUE, layers |-> acc, uuid |-> n]
    ELSE LET r == values[k]
         IN  IF Len(r) < NCols THEN RowsLoop(values, k + 1, acc, n)
             ELSE IF Len(r) > NCols \/ ~ParseFloat(r[13]).ok \/ ~ParseFloat(r[12]).ok
                  THEN [ok |-> FALSE, layers |-> acc, uuid |-> n]
                  ELSE RowsLoop(values, k + 1, AddRow(acc, r, n),
                                IF r[1] = <<>> THEN n + 1 ELSE n)

\* app_from_rows(values): the header row is skipped; when ok is FALSE the dict
\* built so far is never assigned to the session
app_from_rows(values, n0) == RowsLoop(values, 2, <<>>, n0)

(***************************************************************************)
(* The handlers of the Google Sheets tab.  `fail` names the call to the    *)
(* worksheet that raises in this pass, if any.                             *)
(***************************************************************************)
TabFails == {"none", "connect", "read", "update", "tab_read", "probe_read",
             "load_read", "clear", "push_update"}

GetWsFail(fail) == IF fail \in {"connect", "read", "update"} THEN fail ELSE "none"

\* what a handler hands back to the pass
Outcome(ls, sh, as, n, rr, report) ==
    [layers |-> ls, sheet |-> sh, auto_sync |-> as, uuid |-> n, rerun |-> rr,
     sync |-> report]

\* lines 572-577 with a the result of app_from_rows(values): the store is
\* assigned only when no row raised
Loaded(ls, sh, as, n, a) ==
    IF a.ok THEN Outcome(a.layers, sh, as, a.uuid, TRUE, "pull_ok")
    ELSE Outcome(ls, sh, as, n, FALSE, "pull_error")

\* load_sheets without the test for data rows
LoadSheetsNoGuard(ls, sh, as, n) == Loaded(ls, sh, as, n, app_from_rows(sh, n))

\* "Cargar desde Sheets", once the values sh are read
load_sheets(ls, sh, as, n) ==
    IF Len(sh) > 1 THEN Loaded(ls, sh, as, n, app_from_rows(sh, n))
    ELSE Outcome(ls, sh, as, n, FALSE, "pull_nodata")

\* save_sheets without ws.clear()
SaveSheetsNoClear(ls, sh, as, n, fail) ==
    IF fail \in {"clear", "push_update"} THEN Outcome(ls, sh, as, n, FALSE, "push_failed")
    ELSE Outcome(ls, ws_update(sh, rows_from_app(ls)), as, n, FALSE, "push_ok")

\* "Subir (reemplazar hoja)": clear, then update from A1
save_sheets(ls, sh, as, n, fail) ==
    IF fail = "clear" THEN Outcome(ls, sh, as, n, FALSE, "push_failed")
    ELSE IF fail = "push_update"
    THEN Outcome(ls, ws_clear(sh), as, n, FALSE, "push_failed")
    ELSE Outcome(ls, ws_update(ws_clear(sh), rows_from_app(ls)), as, n, FALSE, "push_ok")

\* lines 527-590, with g the result of get_ws()
TabHandlers(ls, g, as, n, button, fail) ==
    IF ~g.ok \/ fail = "tab_read"
    THEN Outcome(ls, g.sheet, as, n, FALSE, "connect_failed")
    ELSE CASE button = "probe" ->
                Outcome(ls, g.sheet, as, n, FALSE,
                        IF fail = "probe_read" THEN "probe_failed" ELSE "probe_ok")
           [] button = "load" ->
                IF fail = "load_read"
                THEN Outcome(ls, g.sheet, as, n, FALSE, "pull_failed")
                ELSE load_sheets(ls, g.sheet, as, n)
           [] button = "save" -> save_sheets(ls, g.sheet, as, n, fail)
           [] button = "toggle" -> Outcome(ls, g.sheet, ~as, n, FALSE, "none")
           [] OTHER -> Outcome(ls, g.sheet, as, n, FALSE, "none")

\* the with tab_sheets: block, entered with store ls, worksheet sh, flag as
tab_sheets(ls, sh, as, n, button, fail) ==
    TabHandlers(ls, get_ws(sh, GetWsFail(fail)), as, n, button, fail)

(***************************************************************************)
(* The map tab: confirm-add with auto-sync, and the move by click          *)
(***************************************************************************)
DescLimit == 240

Truncate(s, n) == SubSeq(s, 1, IF Len(s) < n THEN Len(s) ELSE n)

SanJose == <<"S", "a", "n", " ", "J", "o", "s", "e">>

\* str(fecha) of the date picked in the form
Fecha == <<"2", "0", "2", "5", "-", "0", "1", "-", "0", "1">>

GL == <<"G", "L">>

\* FormProps leaving the layer of the Feature empty
FormPropsNoLayer(ls, i, n, titulo, desc) ==
    [id |-> _new_id(n), layer |-> <<>>, color |-> _clean_hex(ls[i].color),
     titulo |-> Strip(titulo), desc |-> Strip(Truncate(desc, DescLimit)),
     fecha |-> Fecha, provincia |-> SanJose, canton |-> <<>>, responsable |-> GL,
     impacto |-> <<>>, enlace |-> <<>>]

\* the property bag of lines 349-361, with no province filter selected
FormProps(ls, i, n, titulo, desc) ==
    [id |-> _new_id(n), layer |-> ls[i].name, color |-> _clean_hex(ls[i].color),
     titulo |-> Strip(titulo), desc |-> Strip(Truncate(desc, DescLimit)),
     fecha |-> Fecha, provincia |-> SanJose, canton |-> <<>>, responsable |-> GL,
     impacto |-> <<>>, enlace |-> <<>>]

AppendFails == {"none", "connect", "read", "update", "append"}

\* lines 370-377 with g the result of get_ws(): the row of the new Feature f
\* is appended, or the exception is shown in a toast
Appended(ls, f, g, fail) ==
    IF ~g.ok \/ fail = "append"
    THEN [layers |-> ls, sheet |-> g.sheet, append |-> "failed"]
    ELSE [layers |-> ls, sheet |-> ws_append_row(g.sheet, FeatureRow(f)),
          append |-> "ok"]

\* auto_sync_append taking the new Feature back when the append fails
AutoSyncDropsFeature(ls, f, as, sh, fail) ==
    IF ~as THEN [layers |-> ls, sheet |-> sh, append |-> "none"]
    ELSE IF fail # "none"
    THEN [layers |-> [k \in 1..Len(ls) |->
                        [ls[k] EXCEPT !.features =
                            IF @ # <<>> /\ @[Len(@)] = f
                            THEN SubSeq(@, 1, Len(@) - 1) ELSE @]],
          sheet |-> sh, append |-> "failed"]
    ELSE Appended(ls, f, get_ws(sh, "none"), "none")

\* lines 366-377: the auto-sync of the new Feature f
auto_sync_append(ls, f, as, sh, fail) ==
    IF ~as THEN [layers |-> ls, sheet |-> sh, append |-> "none"]
    ELSE Appended(ls, f, get_ws(sh, GetWsFail(fail)), fail)

Moved(ls, mt, rr, e) == [layers |-> ls, move_target |-> mt, rerun |-> rr, exc |-> e]

\* MoveAt writing the Feature anew, its title lost
MoveAtRebuilds(ls, mt, clicked, i) ==
    IF mt[2] >= Len(ls[i].features) THEN Moved(ls, mt, FALSE, "IndexError")
    ELSE Moved([ls EXCEPT ![i].features[mt[2] + 1] =
                              [properties |-> [@.properties EXCEPT !.titulo = <<>>],
                               coordinates |-> <<clicked[2], clicked[1]>>]],
               None, TRUE, "none")

\* lines 439-442 on layer number i of the store
MoveAt(ls, mt, clicked, i) ==
    IF mt[2] >= Len(ls[i].features) THEN Moved(ls, mt, FALSE, "IndexError")
    ELSE Moved([ls EXCEPT ![i].features[mt[2] + 1].coordinates =
                              <<clicked[2], clicked[1]>>],
               None, TRUE, "none")

\* lines 436-442: clicked is map_state["last_clicked"] as <<lat, lon>>
apply_move(ls, mt, clicked) ==
    IF mt = None \/ clicked = None THEN Moved(ls, mt, FALSE, "none")
    ELSE IF mt[1] \notin LayerNames(ls) THEN Moved(ls, mt, FALSE, "KeyError")
    ELSE MoveAt(ls, mt, clicked, LayerIndex(ls, mt[1]))

\* lines 162-165 for the first k layers: the colour read back from the picker
\* goes through _clean_hex
sidebar(ls, k) ==
    [i \in 1..Len(ls) |-> IF i <= k THEN [ls[i] EXCEPT !.color = _clean_hex(@)]
                          ELSE ls[i]]

(***************************************************************************)
(* Bounds and input domains                                                *)
(***************************************************************************)
MaxIds == 2          \* identifiers _new_id() may hand out in one exploration
MaxSheetRows == 3    \* rows another writer may bring the worksheet to
MaxStrLen == 8       \* length of a typed colour candidate

Clicks == {<<1, -2>>, <<2, 1>>}            \* <<lat, lon>> of a click on the map

PickerColors == {<<"#", "1", "7", "b", "e", "c", "f">>}

NewLayerTexts == {<<" ", "O", "p", "s">>, <<" ">>, DefaultLayers[1].name}

TituloTexts == {<<"T", " ">>}

DescTexts == {<<" ", "d">>}

EditDescTexts == {<<"e", " ">>}

ColorChars == {"#", "a", "F", "g", " "}

LayerA == <<"A">>

LayerB == <<"B">>

Row(id, layer, color, lat, lon) ==
    <<id, layer, color, <<"T">>, <<"d">>, Fecha, SanJose, <<>>, GL, <<>>, <<>>, lat, lon>>

\* rows another writer of the worksheet may add
ExtRows ==
    { Row(<<"x">>, LayerA, <<"1", "7", "b", "e", "c", "f">>, <<"1">>, <<"-", "2">>),
      Row(<<"x">>, LayerB, <<"r", "e", "d">>, <<" ", "2">>, <<"1">>),
      Row(<<>>, LayerA, <<>>, <<"2">>, <<"2">>),
      Row(<<"y">>, LayerA, <<"#", "2", "c", "a", "0", "2", "c">>, <<"n">>, <<"1">>),
      << <<"z">>, LayerA, <<>>, <<"T">>, <<"d">> >>,
      Row(<<"w">>, LayerB, <<"#", "2", "c", "a", "0", "2", "c">>, <<"1">>, <<"1">>)
          \o << <<"e">> >> }

\* identifiers app_from_rows would draw for the values
NeedIds(values) ==
    Cardinality({k \in 2..Len(values) : Len(values[k]) = NCols /\ values[k][1] = <<>>})

(***************************************************************************)
(* One pass of the script                                                  *)
(***************************************************************************)
\* a pass that pressed none of delete and confirm-add and applied no move
NoOp == [op |-> "none", layer |-> None, idx |-> 0]

Op(kind, name, idx) == [op |-> kind, layer |-> name, idx |-> idx]

Init ==
    /\ layers = DefaultLayers
    /\ move_target = None
    /\ last_click = None
    /\ last_added_from_click = None
    /\ auto_sync = FALSE
    /\ last_clicked = None
    /\ rerun = TRUE                  \* the first pass of the session is due
    /\ sheet = <<>>
    /\ uuid_count = 0
    /\ exc = "none"
    /\ sync = "skipped"
    /\ append = "none"
    /\ store_before_sync = DefaultLayers
    /\ sheet_after_sync = None
    /\ last_op = NoOp
    /\ cand = <<>>
    /\ cleaned = _clean_hex(<<>>)

\* lines 324-326
capture(clicked, lc) == IF clicked # None THEN clicked ELSE lc

\* the pass after the move by click gave m: cut there by st.rerun() or by an
\* exception, or else on to the Google Sheets tab
AfterMove(m, ls, mt, as, sh, n, button, fail) ==
    IF m.exc # "none" \/ m.rerun
    THEN [o |-> Outcome(m.layers, sh, as, n, m.rerun, "skipped"),
          move_target |-> m.move_target, exc |-> m.exc, before |-> store_before_sync,
          moved |-> m.rerun]
    ELSE [o |-> tab_sheets(ls, sh, as, n, button, fail),
          move_target |-> mt, exc |-> "none", before |-> ls, moved |-> FALSE]

\* from line 436 to the end of the script
Finish(ls, mt, clicked, as, sh, n, button, fail) ==
    AfterMove(apply_move(ls, mt, clicked), ls, mt, as, sh, n, button, fail)

\* the reports of a load or save handler that read or wrote worksheet rows
HandlerReports == {"pull_ok", "pull_nodata", "pull_error", "push_ok", "push_failed"}

\* a pass that reaches line 436 with store ls and move target mt, after the
\* button recorded as op
CompleteOp(ls, mt, clicked, button, fail, op) ==
    \E r \in {Finish(ls, mt, clicked, auto_sync, sheet, uuid_count, button, fail)} :
        /\ layers' = r.o.layers
        /\ move_target' = r.move_target
        /\ last_click' = capture(clicked, last_click)
        /\ last_clicked' = clicked
        /\ auto_sync' = r.o.auto_sync
        /\ rerun' = r.o.rerun
        /\ sheet' = r.o.sheet
        /\ uuid_count' = r.o.uuid
        /\ exc' = r.exc
        /\ sync' = r.o.sync
        /\ append' = "none"
        /\ store_before_sync' = r.before
        /\ sheet_after_sync' = IF r.o.sync \in HandlerReports THEN r.o.sheet ELSE None
        /\ last_op' = IF r.moved THEN Op("move", mt[1], mt[2]) ELSE op
        /\ UNCHANGED <<last_added_from_click, cand, cleaned>>

Complete(ls, mt, clicked, button, fail) == CompleteOp(ls, mt, clicked, button, fail, NoOp)

\* a pass cut by st.rerun() before line 436, after the button recorded as op
CutOp(ls, mt, lc, la, op) ==
    /\ layers' = ls
    /\ move_target' = mt
    /\ last_click' = lc
    /\ last_added_from_click' = la
    /\ rerun' = TRUE
    /\ exc' = "none"
    /\ sync' = "skipped"
    /\ append' = "none"
    /\ sheet_after_sync' = None
    /\ last_op' = op
    /\ UNCHANGED <<auto_sync, last_clicked, sheet, uuid_count, store_before_sync,
                   cand, cleaned>>

Cut(ls, mt, lc, la) == CutOp(ls, mt, lc, la, NoOp)

\* the buttons of the Google Sheets tab are on the page
SheetsShown == sync \notin {"skipped", "connect_failed"}

\* the pass st.rerun() asked for, and the first pass of the session
Rerun(fail) ==
    /\ rerun
    /\ Complete(sidebar(layers, Len(layers)), move_target, last_clicked, "none", fail)

\* a widget that only feeds the rendering (base map, filters, form fields)
Refresh(fail) ==
    /\ ~rerun
    /\ Complete(sidebar(layers, Len(layers)), move_target, last_clicked, "none", fail)

\* the "Visible" checkbox of layer i
SetVisible(i, fail) ==
    /\ ~rerun
    /\ Complete([sidebar(layers, Len(layers)) EXCEPT ![i].visible = ~@],
                move_target, last_clicked, "none", fail)

\* the colour picker of layer i
SetColor(i, c, fail) ==
    /\ ~rerun
    /\ layers[i].color # c
    /\ Complete([sidebar(layers, Len(layers)) EXCEPT ![i].color = _clean_hex(c)],
                move_target, last_clicked, "none", fail)

\* "Eliminar capa" of layer i
DeleteLayer(i) ==
    /\ ~rerun
    /\ Cut(RemoveAt(sidebar(layers, i), i), move_target, last_click,
           last_added_from_click)

\* "Crear capa"
CreateLayer(text, color, fail) ==
    /\ ~rerun
    /\ \E name \in {Strip(text)} :
       \E ls \in {sidebar(layers, Len(layers))} :
          IF name # <<>> /\ name \notin LayerNames(ls)
          THEN Cut(Append(ls, [name |-> name, color |-> _clean_hex(color),
                               visible |-> TRUE, features |-> <<>>]),
                   move_target, last_click, last_added_from_click)
          ELSE Complete(ls, move_target, last_clicked, "none", fail)

\* a click on the map
MapClick(c, fail) ==
    /\ ~rerun
    /\ c # last_clicked
    /\ Complete(sidebar(layers, Len(layers)), move_target, c, "none", fail)

\* "Limpiar seleccion de clic"
ClearClick ==
    /\ ~rerun
    /\ last_click # None
    /\ Cut(sidebar(layers, Len(layers)), move_target, None, None)

\* lines 345-377 and the rest of the pass, with the new Feature f
Added(ls, i, lc, f, failA, fail) ==
    \E added \in {[ls EXCEPT ![i].features = Append(@, f)]} :
    \E a \in {auto_sync_append(added, f, auto_sync, sheet, failA)} :
    \E r \in {Finish(a.layers, move_target, last_clicked, auto_sync, a.sheet,
                     uuid_count + 1, "none", fail)} :
        /\ layers' = r.o.layers
        /\ move_target' = r.move_target
        /\ last_click' = lc
        /\ last_added_from_click' = lc
        /\ auto_sync' = r.o.auto_sync
        /\ rerun' = r.o.rerun
        /\ sheet' = r.o.sheet
        /\ uuid_count' = r.o.uuid
        /\ exc' = r.exc
        /\ sync' = r.o.sync
        /\ append' = a.append
        /\ store_before_sync' = IF auto_sync THEN added ELSE r.before
        /\ sheet_after_sync' = None
        /\ last_op' = Op("confirm_add", ls[i].name, 0)
        /\ UNCHANGED <<last_clicked, cand, cleaned>>

\* ConfirmAdd without the comparison with last_added_from_click
ConfirmAddNoGuard(i, titulo, desc, failA, fail) ==
    /\ ~rerun
    /\ last_click # None /\ move_target = None
    /\ uuid_count < MaxIds
    /\ \E ls \in {sidebar(layers, Len(layers))} :
       \E lc \in {capture(last_clicked, last_click)} :
          Added(ls, i, lc,
                _build_feature(lc[2], lc[1],
                               FormProps(ls, i, uuid_count, titulo, desc),
                               uuid_count + 1),
                failA, fail)

\* "Confirmar agregar punto aqui" with layer i active and the form filled in
ConfirmAdd(i, titulo, desc, failA, fail) ==
    /\ ~rerun
    /\ last_click # None /\ move_target = None      \* the button is enabled
    /\ uuid_count < MaxIds
    /\ \E ls \in {sidebar(layers, Len(layers))} :
       \E lc \in {capture(last_clicked, last_click)} :
          IF last_added_from_click # lc
          THEN Added(ls, i, lc,
                     _build_feature(lc[2], lc[1],
                                    FormProps(ls, i, uuid_count, titulo, desc),
                                    uuid_count + 1),
                     failA, fail)
          ELSE CompleteOp(ls, move_target, last_clicked, "none", fail,
                          Op("confirm_add", ls[i].name, 0))

\* the same button when every layer has been deleted: the selectbox of the
\* active layer gives None and line 352 raises
ConfirmAddNoLayer ==
    /\ ~rerun
    /\ last_click # None /\ move_target = None
    /\ Len(layers) = 0
    /\ last_added_from_click # capture(last_clicked, last_click)
    /\ last_click' = capture(last_clicked, last_click)
    /\ exc' = "KeyError"
    /\ sync' = "skipped"
    /\ append' = "none"
    /\ sheet_after_sync' = None
    /\ last_op' = NoOp
    /\ UNCHANGED <<layers, move_target, last_added_from_click, auto_sync,
                   last_clicked, rerun, sheet, uuid_count, store_before_sync,
                   cand, cleaned>>

\* "Eliminar" with index idx in the tab of layer i
DeleteFeature(i, idx) ==
    /\ ~rerun
    /\ idx \in 0..(Len(layers[i].features) - 1)      \* the range of the number input
    /\ CutOp([sidebar(layers, Len(layers)) EXCEPT ![i].features = RemoveAt(@, idx + 1)],
             move_target, capture(last_clicked, last_click), last_added_from_click,
             Op("delete", layers[i].name, idx))

Cantones == {SanJose}

\* p.update(...) of the edit form: the fields left alone are written back as
\* the form shows them
EditProps(p, desc) ==
    [p EXCEPT !.titulo = Strip(@), !.fecha = Fecha, !.responsable = @,
              !.provincia = SanJose,
              !.canton = IF @ \in Cantones THEN @ ELSE SanJose,
              !.impacto = Strip(@), !.enlace = Strip(@), !.desc = Strip(desc)]

\* "Guardar" of the edit form of layer i, index idx
EditFeature(i, idx, desc) ==
    /\ ~rerun
    /\ idx \in 0..(Len(layers[i].features) - 1)
    /\ Cut([sidebar(layers, Len(layers)) EXCEPT
               ![i].features[idx + 1].properties = EditProps(@, desc)],
           move_target, capture(last_clicked, last_click), last_added_from_click)

\* "Activar mover por clic" of layer i, index idx
ActivateMove(i, idx, fail) ==
    /\ ~rerun
    /\ idx \in 0..(Len(layers[i].features) - 1)
    /\ Complete(sidebar(layers, Len(layers)), <<layers[i].name, idx>>,
                last_clicked, "none", fail)

\* "Cancelar" in the tab of layer i
CancelMove(i) ==
    /\ ~rerun
    /\ layers[i].features # <<>>
    /\ move_target # None
    /\ Cut(sidebar(layers, Len(layers)), None, capture(last_clicked, last_click),
           last_added_from_click)

\* a button of the Google Sheets tab
SheetsButton(button, fail) ==
    /\ ~rerun
    /\ SheetsShown
    /\ button = "load" => uuid_count + NeedIds(sheet) <= MaxIds
    /\ Complete(sidebar(layers, Len(layers)), move_target, last_clicked, button, fail)

ProbeSheets(fail) == SheetsButton("probe", fail)

LoadSheets(fail) == SheetsButton("load", fail)

SaveSheets(fail) == SheetsButton("save", fail)

ToggleAutoSync(fail) == SheetsButton("toggle", fail)

\* another writer of the worksheet adds a row below the header
ExtAppend(row) ==
    /\ Len(sheet) < MaxSheetRows
    /\ sheet' = Append(IF sheet = <<>> THEN <<HEADER>> ELSE sheet, row)
    /\ UNCHANGED <<layers, move_target, last_click, last_added_from_click, auto_sync,
                   last_clicked, rerun, uuid_count, exc, sync, append,
                   store_before_sync, sheet_after_sync, last_op, cand, cleaned>>

\* one more character of a colour candidate
TypeChar(c) ==
    /\ Len(cand) < MaxStrLen
    /\ cand' = Append(cand, c)
    /\ cleaned' = _clean_hex(cand')
    /\ UNCHANGED <<layers, move_target, last_click, last_added_from_click, auto_sync,
                   last_clicked, rerun, sheet, uuid_count, exc, sync, append,
                   store_before_sync, sheet_after_sync, last_op>>

(***************************************************************************)
(* Specifications.  Spec is the whole application; the others explore one  *)
(* part of it with the inputs of that part.                                *)
(***************************************************************************)
Indices == 0..(MaxSheetRows + MaxIds)

Next ==
    \/ \E f \in TabFails : Rerun(f)
    \/ \E f \in TabFails : Refresh(f)
    \/ \E i \in 1..Len(layers), f \in TabFails : SetVisible(i, f)
    \/ \E i \in 1..Len(layers), c \in PickerColors, f \in TabFails : SetColor(i, c, f)
    \/ \E i \in 1..Len(layers) : DeleteLayer(i)
    \/ \E t \in NewLayerTexts, c \in PickerColors, f \in TabFails : CreateLayer(t, c, f)
    \/ \E c \in Clicks, f \in TabFails : MapClick(c, f)
    \/ ClearClick
    \/ \E i \in 1..Len(layers), t \in TituloTexts, d \in DescTexts,
          fa \in AppendFails, f \in TabFails : ConfirmAdd(i, t, d, fa, f)
    \/ ConfirmAddNoLayer
    \/ \E i \in 1..Len(layers), idx \in Indices : DeleteFeature(i, idx)
    \/ \E i \in 1..Len(layers), idx \in Indices, d \in EditDescTexts :
          EditFeature(i, idx, d)
    \/ \E i \in 1..Len(layers), idx \in Indices, f \in TabFails : ActivateMove(i, idx, f)
    \/ \E i \in 1..Len(layers) : CancelMove(i)
    \/ \E f \in TabFails : ProbeSheets(f)
    \/ \E f \in TabFails : LoadSheets(f)
    \/ \E f \in TabFails : SaveSheets(f)
    \/ \E f \in TabFails : ToggleAutoSync(f)
    \/ \E row \in ExtRows : ExtAppend(row)

Spec == Init /\ [][Next]_vars

\* the colour normaliser on every candidate text
NextColor == \E c \in ColorChars : TypeChar(c)

SpecColor == Init /\ [][NextColor]_vars

\* reloading from a worksheet other writers fill
NextPull ==
    \/ \E f \in {"none", "connect"} : Rerun(f)
    \/ \E f \in {"none", "read", "load_read"} : LoadSheets(f)
    \/ \E row \in ExtRows : ExtAppend(row)

SpecPull == Init /\ [][NextPull]_vars

\* adding points and synchronising them, with every call to the worksheet
\* able to fail
SyncRows ==
    { Row(<<"x">>, LayerA, <<"1", "7", "b", "e", "c", "f">>, <<"1">>, <<"-", "2">>),
      Row(<<"y">>, LayerA, <<>>, <<"n">>, <<"1">>) }

NextSync ==
    \/ \E f \in {"none", "connect", "read", "update", "tab_read"} : Rerun(f)
    \/ \E f \in {"none", "connect"} : MapClick(<<1, -2>>, f)
    \/ \E t \in TituloTexts, d \in DescTexts, fa \in AppendFails :
          ConfirmAdd(1, t, d, fa, "none")
    \/ \E f \in {"none", "probe_read"} : ProbeSheets(f)
    \/ \E f \in {"none", "connect", "load_read"} : LoadSheets(f)
    \/ \E f \in {"none", "connect", "clear", "push_update"} : SaveSheets(f)
    \/ ToggleAutoSync("none")
    \/ \E row \in SyncRows : ExtAppend(row)

SpecSync == Init /\ [][NextSync]_vars

\* the operations that add, change, move and remove layers and Features, the
\* worksheet always answering
StoreRows ==
    { Row(<<"x">>, LayerA, <<"1", "7", "b", "e", "c", "f">>, <<"1">>, <<"-", "2">>) }

StoreLayer == {1} \cap (1..Len(layers))

NextStore ==
    \/ Rerun("none")
    \/ \E i \in StoreLayer : DeleteLayer(i)
    \/ \E c \in PickerColors : CreateLayer(<<" ", "O", "p", "s">>, c, "none")
    \/ MapClick(<<2, 1>>, "none")
    \/ ClearClick
    \/ \E i \in StoreLayer, t \in TituloTexts, d \in DescTexts :
          ConfirmAdd(i, t, d, "none", "none")
    \/ ConfirmAddNoLayer
    \/ \E i \in StoreLayer, idx \in Indices : DeleteFeature(i, idx)
    \/ \E i \in StoreLayer, idx \in Indices, d \in EditDescTexts : EditFeature(i, idx, d)
    \/ \E i \in StoreLayer, idx \in Indices : ActivateMove(i, idx, "none")
    \/ \E i \in StoreLayer : CancelMove(i)
    \/ LoadSheets("none")
    \/ \E row \in StoreRows : Len(sheet) <= 1 /\ ExtAppend(row)

SpecStore == Init /\ [][NextStore]_vars

\* Features in two layers, the layers shown and hidden, and the upload that
\* flattens the store
FlatLayer == {1, 2} \cap (1..Len(layers))

NextFlat ==
    \/ Rerun("none")
    \/ \E i \in FlatLayer : SetVisible(i, "none")
    \/ \E c \in Clicks : MapClick(c, "none")
    \/ \E i \in FlatLayer, t \in TituloTexts, d \in DescTexts :
          ConfirmAdd(i, t, d, "none", "none")
    \/ SaveSheets("none")

SpecFlat == Init /\ [][NextFlat]_vars

\* descriptions longer than the limit of the add form, typed into the add
\* form, typed into the edit form and read from the worksheet
LongText == [k \in 1..(DescLimit + 1) |-> "d"]

LongRow ==
    [Row(<<"x">>, LayerA, <<"1", "7", "b", "e", "c", "f">>, <<"1">>, <<"-", "2">>)
        EXCEPT ![5] = LongText]

NextDesc ==
    \/ Rerun("none")
    \/ MapClick(<<1, -2>>, "none")
    \/ \E i \in StoreLayer, t \in TituloTexts, d \in DescTexts \cup {LongText} :
          ConfirmAdd(i, t, d, "none", "none")
    \/ \E i \in StoreLayer, idx \in Indices, d \in EditDescTexts \cup {LongText} :
          EditFeature(i, idx, d)
    \/ LoadSheets("none")
    \/ Len(sheet) <= 1 /\ ExtAppend(LongRow)

SpecDesc == Init /\ [][NextDesc]_vars

\* clicks, clearing the click and confirming, with and without auto-sync,
\* the append to the worksheet able to fail
NextClick ==
    \/ Rerun("none")
    \/ \E c \in Clicks : MapClick(c, "none")
    \/ ClearClick
    \/ \E i \in StoreLayer, t \in TituloTexts, d \in DescTexts, fa \in AppendFails :
          ConfirmAdd(i, t, d, fa, "none")
    \/ ToggleAutoSync("none")

SpecClick == Init /\ [][NextClick]_vars

(***************************************************************************)
(* Properties                                                              *)
(***************************************************************************)
\* s is six hexadecimal digits, with or without a leading '#'
IsHexToken(s) ==
    \/ Len(s) = 6 /\ \A i \in 1..6 : s[i] \in HexDigits
    \/ Len(s) = 7 /\ s[1] = "#" /\ \A i \in 2..7 : s[i] \in HexDigits

TokenDigits(s) == IF Len(s) = 7 THEN SubSeq(s, 2, 7) ELSE s

\* s between its first and its last character that is no whitespace
Trimmed(s) ==
    LET solid == {i \in 1..Len(s) : s[i] \notin Whitespace}
    IN  IF solid = {} THEN <<>>
        ELSE SubSeq(s, CHOOSE i \in solid : \A j \in solid : i <= j,
                       CHOOSE i \in solid : \A j \in solid : j <= i)

IsCanonicalColor(c) == Len(c) = 7 /\ c[1] = "#" /\ \A i \in 2..7 : c[i] \in HexDigits

\* C3 as stated: the normaliser returns '#' and six hexadecimal digits for
\* every candidate; the candidate's own digits, case kept, when the candidate
\* is a six-digit token with or without '#', and the fallback otherwise.
C3_AsStated ==
    /\ IsCanonicalColor(cleaned)
    /\ IF IsHexToken(cand) THEN cleaned = <<"#">> \o TokenDigits(cand)
       ELSE cleaned = DefaultColor

\* C3 amended: the same, the token being the candidate without the whitespace
\* around it.
C3_NormalizeColor ==
    /\ IsCanonicalColor(cleaned)
    /\ IF IsHexToken(Trimmed(cand)) THEN cleaned = <<"#">> \o TokenDigits(Trimmed(cand))
       ELSE cleaned = DefaultColor

\* a token with upper and lower case digits behind a blank has been normalised
C3_Witness ==
    /\ Len(cand) = 7 /\ cand[1] = " "
    /\ IsHexToken(Tail(cand))
    /\ "F" \in {cand[i] : i \in 2..7} /\ "a" \in {cand[i] : i \in 2..7}
    /\ cleaned = <<"#">> \o Tail(cand)

\* the places <<i, j>> of the Features of a store: Feature j of layer i
Places(ls) == UNION {{<<i, j>> : j \in 1..Len(ls[i].features)} : i \in 1..Len(ls)}

FeatureIds(ls) == {ls[pl[1]].features[pl[2]].properties.id : pl \in Places(ls)}

\* C1 as stated: no two Features anywhere in the store have the same id.
C1_AsStated ==
    \A p1 \in Places(layers), p2 \in Places(layers) :
        p1 # p2 => layers[p1[1]].features[p1[2]].properties.id
                     # layers[p2[1]].features[p2[2]].properties.id

\* C2: every Feature stored under a layer carries that layer's name in
\* properties.layer.
C2_LayerStamp ==
    \A pl \in Places(layers) :
        layers[pl[1]].features[pl[2]].properties.layer = layers[pl[1]].name

\* a layer holds a Feature rebuilt from a worksheet row next to one added by
\* a confirmed click
C2_Witness ==
    \E i \in 1..Len(layers) :
        /\ \E j \in 1..Len(layers[i].features) :
              layers[i].features[j].properties.id = <<"x">>
        /\ \E j \in 1..Len(layers[i].features) :
              layers[i].features[j].properties.id = _new_id(0)

\* C4 as stated: a move, delete or edit whose index is out of range when it
\* is applied never ends the pass with an unhandled exception.
C4_AsStated == exc # "IndexError"

PullReports == {"pull_ok", "pull_nodata", "pull_error"}

\* C5: a load that read no data row (nothing, or the header alone) leaves
\* the layer store as it was when the Google Sheets tab was entered.
C5_PullNoData ==
    (sync \in PullReports /\ Len(sheet_after_sync) <= 1) =>
        layers = store_before_sync /\ exc = "none"

\* a load found the header alone while the store held a Feature
C5_Witness ==
    /\ sync = "pull_nodata"
    /\ sheet_after_sync = <<HEADER>>
    /\ Places(layers) # {}
    /\ layers = store_before_sync

IsNumber(text) == ParseFloat(text).ok

Num(text) == ParseFloat(text).val

WellFormed(r) == Len(r) = NCols /\ IsNumber(r[12]) /\ IsNumber(r[13])

DataRows(values) == SubSeq(values, 2, Len(values))

\* C6 as stated: a load of at least one data row skips every malformed row
\* by itself: it succeeds and the store holds one Feature per well-formed row.
C6_AsStated ==
    (sync \in PullReports /\ Len(sheet_after_sync) > 1) =>
        /\ sync = "pull_ok"
        /\ Cardinality(Places(layers))
             = Cardinality({k \in 2..Len(sheet_after_sync) : WellFormed(sheet_after_sync[k])})

\* the colour the store keeps for the colour cell c
Canon(c) ==
    IF IsHexToken(Trimmed(c)) THEN <<"#">> \o TokenDigits(Trimmed(c)) ELSE DefaultColor

LoadedRows(values) == SelectSeq(DataRows(values), LAMBDA r : Len(r) = NCols)

RowsOf(rows, name) == SelectSeq(rows, LAMBDA r : r[2] = name)

FirstPos(rows, name) ==
    CHOOSE k \in 1..Len(rows) :
        rows[k][2] = name /\ \A j \in 1..(k - 1) : rows[j][2] # name

\* Feature f is what row r describes
FromRow(f, r) ==
    /\ IF r[1] = <<>> THEN f.properties.id # <<>> ELSE f.properties.id = r[1]
    /\ f.properties.layer = r[2]
    /\ f.properties.color = Canon(r[3])
    /\ f.properties.titulo = r[4] /\ f.properties.desc = r[5]
    /\ f.properties.fecha = r[6] /\ f.properties.provincia = r[7]
    /\ f.properties.canton = r[8] /\ f.properties.responsable = r[9]
    /\ f.properties.impacto = r[10] /\ f.properties.enlace = r[11]
    /\ f.coordinates = <<Num(r[13]), Num(r[12])>>

\* layer l is the layer the rows make under its name
LayerFromRows(l, rows) ==
    /\ l.visible
    /\ l.color = Canon(rows[FirstPos(rows, l.name)][3])
    /\ Len(l.features) = Len(RowsOf(rows, l.name))
    /\ \A k \in 1..Len(l.features) : FromRow(l.features[k], RowsOf(rows, l.name)[k])

StoreFromRows(ls, rows) ==
    /\ {ls[i].name : i \in 1..Len(ls)} = {rows[k][2] : k \in 1..Len(rows)}
    /\ \A i \in 1..Len(ls), j \in 1..Len(ls) :
          i < j => FirstPos(rows, ls[i].name) < FirstPos(rows, ls[j].name)
    /\ \A i \in 1..Len(ls) : LayerFromRows(ls[i], rows)

RoundTripRow(r) == WellFormed(r) /\ r[1] # <<>>

\* how often rows says: id, latitude, longitude
Count(rows, id, lat, lon) ==
    Cardinality({k \in 1..Len(rows) :
                    rows[k][1] = id /\ rows[k][12] = lat /\ rows[k][13] = lon})

NumRows(rows) == [k \in 1..Len(rows) |-> [rows[k] EXCEPT ![12] = Num(@), ![13] = Num(@)]]

SameFeatures(rin, rout) ==
    /\ Len(rin) = Len(rout)
    /\ \A k \in 1..Len(rin) :
          /\ Count(rin, rin[k][1], rin[k][12], rin[k][13])
               = Count(rout, rin[k][1], rin[k][12], rin[k][13])
          /\ Count(rin, rout[k][1], rout[k][12], rout[k][13])
               = Count(rout, rout[k][1], rout[k][12], rout[k][13])

\* C8: rows that all have 13 columns, an id and numeric coordinates, once
\* loaded and exported again, describe the same multiset of ids, each with
\* the latitude and the longitude of its input row.
C8_RoundTrip ==
    (sync = "pull_ok" /\ \A k \in 2..Len(sheet_after_sync) : RoundTripRow(sheet_after_sync[k]))
        => SameFeatures(NumRows(DataRows(sheet_after_sync)),
                        DataRows(rows_from_app(layers)))

\* two well-formed rows of different layers, latitude and longitude
\* different, have been loaded
C8_Witness ==
    /\ sync = "pull_ok"
    /\ Len(sheet_after_sync) = 3
    /\ \A k \in 2..3 : RoundTripRow(sheet_after_sync[k])
    /\ sheet_after_sync[2][2] # sheet_after_sync[3][2]
    /\ Num(sheet_after_sync[2][12]) # Num(sheet_after_sync[2][13])

\* row r of the worksheet is the row of Feature f
RowOf(r, f) ==
    /\ Len(r) = NCols
    /\ r[1] = f.properties.id /\ r[2] = f.properties.layer
    /\ r[3] = f.properties.color /\ r[4] = f.properties.titulo
    /\ r[5] = f.properties.desc /\ r[6] = f.properties.fecha
    /\ r[7] = f.properties.provincia /\ r[8] = f.properties.canton
    /\ r[9] = f.properties.responsable /\ r[10] = f.properties.impacto
    /\ r[11] = f.properties.enlace
    /\ IsNumber(r[12]) /\ Num(r[12]) = f.coordinates[2]
    /\ IsNumber(r[13]) /\ Num(r[13]) = f.coordinates[1]

TableOf(table, feats) ==
    /\ Len(table) = Len(feats) + 1
    /\ table[1] = HEADER
    /\ \A k \in 1..Len(feats) : RowOf(table[k + 1], feats[k])

\* C9: after a successful upload the worksheet is the header followed by one
\* row per Feature of the flattened store, in that order, and nothing else.
C9_PushReplaces ==
    sync = "push_ok" => TableOf(sheet_after_sync, all_features_fc(layers))

\* an upload wrote the one Feature of the store, added by a confirmed click
C9_Witness ==
    /\ sync = "push_ok"
    /\ FeatureIds(layers) = {_new_id(0)}
    /\ Len(sheet_after_sync) = 2
    /\ sheet_after_sync[2][1] = _new_id(0)

SyncFailures ==
    {"connect_failed", "probe_failed", "pull_failed", "pull_error", "push_failed"}

\* C10: when a call to the worksheet fails, during the auto-sync append or
\* in the Google Sheets tab, or a load stops part-way at a row, the failure
\* is caught and the layer store is the store from just before the
\* synchronisation.
C10_FailureKeepsStore ==
    (append = "failed" \/ sync \in SyncFailures) =>
        layers = store_before_sync /\ exc = "none"

\* the auto-sync append of a Feature just added failed, and the Feature is
\* in the store
C10_Witness ==
    /\ append = "failed"
    /\ auto_sync
    /\ \E i \in 1..Len(layers) :
          /\ layers[i].features # <<>>
          /\ layers[i].features[Len(layers[i].features)].coordinates
               = <<last_added_from_click[2], last_added_from_click[1]>>

\* C11: a pass that applies a pending move replaces the coordinates of the
\* Feature at the target's index of the target's layer by <<lon, lat>> of the
\* click and changes nothing else of the store.
C11_MoveOnlyCoordinates ==
    [][last_op'.op = "move" =>
          \E i \in 1..Len(layers) :
             /\ layers[i].name = last_op'.layer
             /\ last_op'.idx < Len(layers[i].features)
             /\ layers' = [layers EXCEPT ![i].features[last_op'.idx + 1].coordinates =
                                            <<last_clicked'[2], last_clicked'[1]>>]]_vars

\* the Feature loaded at <<-2, 1>> has been moved to the click at lat 2, lon 1
C11_Witness ==
    /\ last_op.op = "move"
    /\ last_clicked = <<2, 1>>
    /\ \E i \in 1..Len(layers) :
          /\ layers[i].name = last_op.layer
          /\ layers[i].features[last_op.idx + 1].properties.id = <<"x">>
          /\ layers[i].features[last_op.idx + 1].coordinates = <<1, 2>>

\* list new is list old without its element number k
WithoutElement(new, old, k) ==
    /\ k \in 1..Len(old)
    /\ Len(new) = Len(old) - 1
    /\ \A j \in 1..(k - 1) : new[j] = old[j]
    /\ \A j \in k..Len(new) : new[j] = old[j + 1]

\* C12: a pass that deletes the Feature at an index of a layer leaves that
\* layer's list without that element, the later ones shifted down by one,
\* and every other layer as it was.
C12_DeleteShifts ==
    [][(~rerun /\ last_op'.op = "delete") =>
          /\ Len(layers') = Len(layers)
          /\ \E i \in 1..Len(layers) :
                /\ layers[i].name = last_op'.layer
                /\ WithoutElement(layers'[i].features, layers[i].features,
                                  last_op'.idx + 1)
                /\ layers'[i] = [layers[i] EXCEPT !.features = layers'[i].features]
                /\ \A h \in 1..Len(layers) : h # i => layers'[h] = layers[h]]_vars

\* index 0 of a layer of two Features has been deleted: the Feature added
\* second is the one left
C12_Witness ==
    /\ last_op.op = "delete" /\ last_op.idx = 0
    /\ \E i \in 1..Len(layers) :
          /\ layers[i].name = last_op.layer
          /\ Len(layers[i].features) = 1
          /\ layers[i].features[1].properties.id = _new_id(1)

\* the number of Features of the first k layers
RECURSIVE SumLens(_, _)
SumLens(ls, k) == IF k = 0 THEN 0 ELSE SumLens(ls, k - 1) + Len(ls[k].features)

\* flat is the lists of the layers of ls one after the other
Concatenated(flat, ls) ==
    /\ Len(flat) = SumLens(ls, Len(ls))
    /\ \A pl \in Places(ls) :
          flat[SumLens(ls, pl[1] - 1) + pl[2]] = ls[pl[1]].features[pl[2]]

\* C13: the flattened store is every layer's Feature list, hidden layers
\* included, in layer order; its length is the sum of the lists' lengths;
\* showing or hiding a layer does not change it, and the upload that
\* flattens the store leaves the store as it was.
C13_Flatten ==
    /\ Concatenated(all_features_fc(layers), layers)
    /\ \A i \in 1..Len(layers) :
          all_features_fc([layers EXCEPT ![i].visible = ~@]) = all_features_fc(layers)
    /\ sync = "push_ok" => layers = store_before_sync

\* a store with a Feature in a hidden layer and one in a shown layer has
\* been flattened and uploaded
C13_Witness ==
    /\ sync = "push_ok"
    /\ Len(sheet_after_sync) = 3
    /\ ~layers[1].visible /\ Len(layers[1].features) = 1
    /\ layers[2].visible /\ Len(layers[2].features) = 1

\* C14 as stated: the description of every Feature of the store has at most
\* 240 characters.
C14_AsStated ==
    \A pl \in Places(layers) :
        Len(layers[pl[1]].features[pl[2]].properties.desc) <= DescLimit

\* store new is store old with one Feature more, at the end of the layer
\* called name, at the click lc
OneAdded(new, old, name, lc) ==
    \E i \in 1..Len(old) :
       /\ old[i].name = name
       /\ Len(new) = Len(old)
       /\ Len(new[i].features) = Len(old[i].features) + 1
       /\ new = [old EXCEPT ![i].features = Append(@, new[i].features[Len(new[i].features)])]
       /\ new[i].features[Len(new[i].features)].coordinates = <<lc[2], lc[1]>>

\* worksheet new has the data rows of worksheet old and one more, the row of
\* the Feature added last to the layer called name
OneRowAdded(new, old, ls, name) ==
    \E i \in 1..Len(ls) :
       /\ ls[i].name = name
       /\ Len(new) >= 2 /\ new[1] = HEADER
       /\ DataRows(new) = Append(DataRows(old), new[Len(new)])
       /\ RowOf(new[Len(new)], ls[i].features[Len(ls[i].features)])

\* last_added_from_click changes only when an add sets it to the click of the
\* add and when clearing the click resets it
SetByAddOrClear ==
    last_added_from_click' # last_added_from_click =>
        \/ last_op'.op = "confirm_add" /\ last_added_from_click' = last_click'
        \/ last_added_from_click' = None /\ last_click' = None

\* C15 as stated: a confirm-add pass has a click; when that click is the one
\* of the last add, the store and the rows of the worksheet stay; otherwise
\* the store gains exactly one Feature at the click and, with auto-sync on,
\* the worksheet exactly one row.  The click of the last add is forgotten
\* only by clearing the click and replaced only by another add.
C15_AsStated ==
    [][/\ SetByAddOrClear
       /\ (~rerun /\ last_op'.op = "confirm_add") =>
          /\ last_click' # None
          /\ IF last_added_from_click = last_click'
             THEN layers' = layers /\ DataRows(sheet') = DataRows(sheet)
             ELSE /\ OneAdded(layers', layers, last_op'.layer, last_click')
                  /\ last_added_from_click' = last_click'
                  /\ IF auto_sync
                     THEN OneRowAdded(sheet', sheet, layers', last_op'.layer)
                     ELSE DataRows(sheet') = DataRows(sheet)
      ]_vars

\* C15 amended: the same, the worksheet gaining its one row when the append
\* of the auto-sync succeeds and none when it fails.
C15_AntiDuplicate ==
    [][/\ SetByAddOrClear
       /\ (~rerun /\ last_op'.op = "confirm_add") =>
          /\ last_click' # None
          /\ IF last_added_from_click = last_click'
             THEN layers' = layers /\ DataRows(sheet') = DataRows(sheet)
             ELSE /\ OneAdded(layers', layers, last_op'.layer, last_click')
                  /\ last_added_from_click' = last_click'
                  /\ IF auto_sync /\ append' # "failed"
                     THEN OneRowAdded(sheet', sheet, layers', last_op'.layer)
                     ELSE DataRows(sheet') = DataRows(sheet)
      ]_vars

\* confirm-add has been pressed again on the click of the one Feature added,
\* with auto-sync on: one Feature in the store, one data row in the worksheet
C15_Witness ==
    /\ last_op.op = "confirm_add"
    /\ auto_sync /\ append = "none"
    /\ last_added_from_click # None /\ last_added_from_click = last_click
    /\ Cardinality(Places(layers)) = 1
    /\ Len(sheet) = 2

\* C16 as stated: a pending move target names a layer of the store and an
\* index within that layer's Feature list.
C16_AsStated ==
    move_target # None =>
        \E i \in 1..Len(layers) :
           /\ layers[i].name = move_target[1]
           /\ move_target[2] \in 0..(Len(layers[i].features) - 1)

\* C17 as stated: after an upload, successful or failed, the worksheet holds
\* the rows of the store or what it held before; in either case it still has
\* its header row: it is never left cleared.
C17_AsStated ==
    /\ sync = "push_ok" => TableOf(sheet_after_sync, all_features_fc(layers))
    /\ sync = "push_failed" => sheet_after_sync # <<>> /\ sheet_after_sync[1] = HEADER

=============================================================================
